---- MODULE Spec2Model ----
(***************************************************************************)
(* Model of Backend/app.js: the POST /analyze-food handler with its two    *)
(* helpers extractJSON and safeJSONParse, and the FoodAnalyzer client      *)
(* component.  Texts are sequences of one-character strings; JSON values   *)
(* are tagged pairs <<tag, payload>>; numbers are exact decimals with one  *)
(* fractional digit, held as an integer count of tenths.                   *)
(***************************************************************************)
EXTENDS Integers, Sequences, FiniteSets, TLC

\* ------------------------------------------------------------------ bounds
\* requests the server receives (all may be in flight at once)
MaxRequests == 2
\* longest foods array in the model's answers
MaxFoods == 2
\* fragments concatenated into an input text of extractJSON
MaxFrags == 4
\* fragments concatenated into a candidate of safeJSONParse
MaxTokens == 4
\* uploads the client starts
MaxUploads == 3

\* ------------------------------------------------------------- characters
Q == "\""
\* the backtick character (the lexer has no literal for it)
BT == "BACKTICK"
Digits == {"0", "1", "2", "3", "4", "5", "6", "7", "8", "9"}
DigitVal == ("0" :> 0) @@ ("1" :> 1) @@ ("2" :> 2) @@ ("3" :> 3) @@ ("4" :> 4)
            @@ ("5" :> 5) @@ ("6" :> 6) @@ ("7" :> 7) @@ ("8" :> 8) @@ ("9" :> 9)

\* the characters the regular expression class \s and String.trim strip
RegexSpace == {" ", "\n", "\t", "\r"}
\* the characters JSON.parse skips between tokens
JSONSpace == {" ", "\n", "\t", "\r"}

\* does pattern p occur in s at index i
MatchesAt(s, i, p) ==
  /\ i + Len(p) - 1 <= Len(s)
  /\ \A k \in 1..Len(p) : s[i + k - 1] = p[k]

Min(S) == CHOOSE x \in S : \A y \in S : x <= y
Max(S) == CHOOSE x \in S : \A y \in S : x >= y

\* String.prototype.replace(/p/g, ""): the scan resumes after each match,
\* so matches are leftmost and do not overlap, and the result is not rescanned
RECURSIVE RemoveFrom(_, _, _)
RemoveFrom(s, p, i) ==
  LET found == {k \in i..Len(s) : MatchesAt(s, k, p)}
  IN IF found = {} THEN SubSeq(s, i, Len(s))
     ELSE SubSeq(s, i, Min(found) - 1) \o RemoveFrom(s, p, Min(found) + Len(p))

RemoveAll(s, p) == RemoveFrom(s, p, 1)

\* String.prototype.trim
trim(s) ==
  LET kept == {k \in 1..Len(s) : s[k] \notin RegexSpace}
  IN IF kept = {} THEN <<>> ELSE SubSeq(s, Min(kept), Max(kept))

\* --------------------------------------------------------- extractJSON
FenceJson == <<BT, BT, BT, "j", "s", "o", "n">>
Fence == <<BT, BT, BT>>

\* text.replace(/BT BT BT json/g, "").replace(/BT BT BT/g, "").trim()
Cleaned(text) == trim(RemoveAll(RemoveAll(text, FenceJson), Fence))

\* [\s\S]* is greedy: from a start at i it takes everything and gives back
\* characters until a "}" is under the cursor
RECURSIVE GreedyEnd(_, _, _)
GreedyEnd(s, i, j) ==
  IF j <= i THEN 0
  ELSE IF s[j] = "}" THEN j
  ELSE GreedyEnd(s, i, j - 1)

\* [\s\S]*? is lazy: the shortest continuation is tried first
RECURSIVE LazyEnd(_, _, _)
LazyEnd(s, i, j) ==
  IF j > Len(s) THEN 0
  ELSE IF s[j] = "}" THEN j
  ELSE LazyEnd(s, i, j + 1)

BraceEndLazy(s, i) == LazyEnd(s, i, i + 1)

BraceEnd(s, i) == GreedyEnd(s, i, Len(s))

\* cleaned.match(/\{[\s\S]*\}/): start positions are tried left to right
RECURSIVE MatchFrom(_, _)
MatchFrom(s, i) ==
  IF i > Len(s) THEN <<0, 0>>
  ELSE IF s[i] = "{" /\ BraceEnd(s, i) # 0 THEN <<i, BraceEnd(s, i)>>
  ELSE MatchFrom(s, i + 1)

MatchBraces(s) == MatchFrom(s, 1)

\* ok = FALSE stands for the thrown Error("No JSON found")
extractJSON(text) ==
  LET cleaned == Cleaned(text)
      match == MatchBraces(cleaned)
  IN IF match[1] = 0 THEN [ok |-> FALSE, val |-> <<>>]
     ELSE [ok |-> TRUE, val |-> SubSeq(cleaned, match[1], match[2])]

\* ------------------------------------------------------------ JSON values
Undefined == <<"undefined", 0>>
Null == <<"null", 0>>
NaN == <<"nan", 0>>
Bool(b) == <<"bool", b>>
Num(tenths) == <<"num", tenths>>
Str(chars) == <<"str", chars>>
Arr(elems) == <<"arr", elems>>
Obj(members) == <<"obj", members>>
Tag(v) == v[1]
Payload(v) == v[2]

\* obj[key] = val: a repeated key keeps its place and takes the last value
SetMember(members, key, val) ==
  IF \E k \in 1..Len(members) : members[k][1] = key
  THEN [k \in 1..Len(members) |->
          IF members[k][1] = key THEN <<key, val>> ELSE members[k]]
  ELSE Append(members, <<key, val>>)

\* obj.key on a parsed object
GetMember(members, key) ==
  IF \E k \in 1..Len(members) : members[k][1] = key
  THEN (CHOOSE m \in {members[k] : k \in 1..Len(members)} : m[1] = key)[2]
  ELSE Undefined

\* ------------------------------------------------------------- JSON.parse
Fail == [ok |-> FALSE, val |-> Undefined, pos |-> 0]
Ok(v, p) == [ok |-> TRUE, val |-> v, pos |-> p]

SkipSpace(s, i) ==
  IF i <= Len(s) /\ s[i] \in JSONSpace
  THEN Min({k \in i..(Len(s) + 1) : k > Len(s) \/ s[k] \notin JSONSpace})
  ELSE i

\* index of the quote that closes a string opened before i, 0 if none;
\* escapes and control characters are outside the modelled texts
RECURSIVE StringEnd(_, _)
StringEnd(s, i) ==
  IF i > Len(s) THEN 0
  ELSE IF s[i] = Q THEN i
  ELSE IF s[i] \in {"\\", "\n", "\t", "\r"} THEN 0
  ELSE StringEnd(s, i + 1)

ParseString(s, i) ==
  LET e == StringEnd(s, i + 1)
  IN IF e = 0 THEN Fail ELSE Ok(Str(SubSeq(s, i + 1, e - 1)), e + 1)

RECURSIVE DigitsEnd(_, _)
DigitsEnd(s, i) ==
  IF i <= Len(s) /\ s[i] \in Digits THEN DigitsEnd(s, i + 1) ELSE i

RECURSIVE DigitsValue(_, _, _)
DigitsValue(s, i, j) ==
  IF j < i THEN 0 ELSE 10 * DigitsValue(s, i, j - 1) + DigitVal[s[j]]

\* -? (0 | [1-9][0-9]*) [. [0-9]]   no exponent, one fractional digit
ParseNumber(s, i) ==
  LET neg == s[i] = "-"
      b == IF neg THEN i + 1 ELSE i
      e == DigitsEnd(s, b)
      intOk == /\ e > b
               /\ (s[b] = "0" => e = b + 1)
      hasFrac == e <= Len(s) /\ s[e] = "."
      fracOk == /\ e + 1 <= Len(s)
                /\ s[e + 1] \in Digits
                /\ DigitsEnd(s, e + 1) = e + 2
      mag == 10 * DigitsValue(s, b, e - 1)
             + (IF hasFrac THEN DigitVal[s[e + 1]] ELSE 0)
  IN IF ~intOk THEN Fail
     ELSE IF hasFrac /\ ~fracOk THEN Fail
     ELSE Ok(Num(IF neg THEN -mag ELSE mag), IF hasFrac THEN e + 2 ELSE e)

ParseLiteral(s, i, word, v) ==
  IF MatchesAt(s, i, word) THEN Ok(v, i + Len(word)) ELSE Fail

RECURSIVE ParseValue(_, _)
RECURSIVE ParseElements(_, _, _)
RECURSIVE ParseMembers(_, _, _)

ParseElements(s, i, acc) ==
  LET r == ParseValue(s, i)
      k == SkipSpace(s, r.pos)
  IN IF ~r.ok \/ k > Len(s) THEN Fail
     ELSE IF s[k] = "," THEN ParseElements(s, k + 1, Append(acc, r.val))
     ELSE IF s[k] = "]" THEN Ok(Arr(Append(acc, r.val)), k + 1)
     ELSE Fail

ParseMembers(s, i, acc) ==
  LET a == SkipSpace(s, i)
      key == IF a <= Len(s) /\ s[a] = Q THEN ParseString(s, a) ELSE Fail
      c == SkipSpace(s, key.pos)
      r == IF key.ok /\ c <= Len(s) /\ s[c] = ":"
           THEN ParseValue(s, c + 1) ELSE Fail
      k == SkipSpace(s, r.pos)
  IN IF ~r.ok \/ k > Len(s) THEN Fail
     ELSE IF s[k] = ","
       THEN ParseMembers(s, k + 1, SetMember(acc, Payload(key.val), r.val))
     ELSE IF s[k] = "}"
       THEN Ok(Obj(SetMember(acc, Payload(key.val), r.val)), k + 1)
     ELSE Fail

ParseValue(s, i) ==
  LET j == SkipSpace(s, i)
      n == SkipSpace(s, j + 1)
  IN IF j > Len(s) THEN Fail
     ELSE IF s[j] = "{" THEN
       IF n <= Len(s) /\ s[n] = "}" THEN Ok(Obj(<<>>), n + 1)
       ELSE ParseMembers(s, j + 1, <<>>)
     ELSE IF s[j] = "[" THEN
       IF n <= Len(s) /\ s[n] = "]" THEN Ok(Arr(<<>>), n + 1)
       ELSE ParseElements(s, j + 1, <<>>)
     ELSE IF s[j] = Q THEN ParseString(s, j)
     ELSE IF s[j] = "-" \/ s[j] \in Digits THEN ParseNumber(s, j)
     ELSE IF s[j] = "t" THEN ParseLiteral(s, j, <<"t", "r", "u", "e">>, Bool(TRUE))
     ELSE IF s[j] = "f" THEN ParseLiteral(s, j, <<"f", "a", "l", "s", "e">>, Bool(FALSE))
     ELSE IF s[j] = "n" THEN ParseLiteral(s, j, <<"n", "u", "l", "l">>, Null)
     ELSE Fail

\* ok = FALSE stands for the thrown SyntaxError
JSONParse(s) ==
  LET r == ParseValue(s, 1)
  IN IF r.ok /\ SkipSpace(s, r.pos) = Len(s) + 1
     THEN [ok |-> TRUE, val |-> r.val]
     ELSE [ok |-> FALSE, val |-> Undefined]

\* ---------------------------------------------------------- safeJSONParse
\* text.replace(/,\s*([}\]])/g, "$1"): the comma and the white space after
\* it go, the closing bracket stays; one pass, left to right
\* \s* is greedy: the index after the white space that starts at i
SpaceEnd(s, i) ==
  Min({k \in i..(Len(s) + 1) : k > Len(s) \/ s[k] \notin RegexSpace})

\* does /,\s*([}\]])/ match at i
CommaMatchesAt(s, i) ==
  /\ s[i] = ","
  /\ SpaceEnd(s, i + 1) <= Len(s)
  /\ s[SpaceEnd(s, i + 1)] \in {"}", "]"}

RECURSIVE RepairFrom(_, _)
RepairFrom(s, i) ==
  LET found == {k \in i..Len(s) : CommaMatchesAt(s, k)}
  IN IF found = {} THEN SubSeq(s, i, Len(s))
     ELSE SubSeq(s, i, Min(found) - 1)
          \o RepairFrom(s, SpaceEnd(s, Min(found) + 1))

Repair(s) == RepairFrom(s, 1)

\* tries = number of JSON.parse calls made
safeJSONParse(text) ==
  LET first == JSONParse(text)
      second == JSONParse(Repair(text))
  IN IF first.ok THEN [ok |-> TRUE, val |-> first.val, tries |-> 1]
     ELSE [ok |-> second.ok, val |-> second.val, tries |-> 2]

\* ------------------------------------------------------------ aggregation
\* the condition of the || operator
Truthy(v) ==
  IF Tag(v) \in {"undefined", "null", "nan"} THEN FALSE
  ELSE IF Tag(v) = "bool" THEN Payload(v)
  ELSE IF Tag(v) = "num" THEN Payload(v) # 0
  ELSE IF Tag(v) = "str" THEN Payload(v) # <<>>
  ELSE TRUE

\* is t  [+-]? [0-9]+ [. [0-9]]  (the decimal literals of the modelled texts)
IsDecimal(t) ==
  LET b == IF t # <<>> /\ t[1] \in {"+", "-"} THEN 2 ELSE 1
      e == DigitsEnd(t, b)
  IN /\ e > b
     /\ \/ e = Len(t) + 1
        \/ /\ e + 1 = Len(t)
           /\ t[e] = "."
           /\ t[e + 1] \in Digits

DecimalValue(t) ==
  LET b == IF t[1] \in {"+", "-"} THEN 2 ELSE 1
      e == DigitsEnd(t, b)
      mag == 10 * DigitsValue(t, b, e - 1)
             + (IF e < Len(t) THEN DigitVal[t[e + 1]] ELSE 0)
  IN IF t[1] = "-" THEN -mag ELSE mag

\* Number(string): white space is stripped, "" is 0, a literal is its value
StringToNumber(chars) ==
  LET t == trim(chars)
  IN IF t = <<>> THEN Num(0)
     ELSE IF IsDecimal(t) THEN Num(DecimalValue(t))
     ELSE NaN

\* Number(v); an array goes through its string form: [] is "", [x] is the
\* string of x (null gives ""), and two or more elements hold a comma
RECURSIVE ToNumber(_)
ToNumber(v) ==
  IF Tag(v) = "num" THEN v
  ELSE IF Tag(v) = "null" THEN Num(0)
  ELSE IF Tag(v) = "bool" THEN Num(IF Payload(v) THEN 10 ELSE 0)
  ELSE IF Tag(v) = "str" THEN StringToNumber(Payload(v))
  ELSE IF Tag(v) = "arr" THEN
    IF Len(Payload(v)) = 0 THEN Num(0)
    ELSE IF Len(Payload(v)) > 1 THEN NaN
    ELSE IF Tag(Payload(v)[1]) \in {"bool", "obj"} THEN NaN
    ELSE ToNumber(Payload(v)[1])
  ELSE NaN

\* f.calories; reading a property of null is a TypeError (ok = FALSE)
GetCalories(f) ==
  IF Tag(f) \in {"null", "undefined"} THEN [ok |-> FALSE, val |-> Undefined]
  ELSE IF Tag(f) = "obj"
    THEN [ok |-> TRUE, val |-> GetMember(Payload(f), <<"c", "a", "l", "o", "r", "i", "e", "s">>)]
  ELSE [ok |-> TRUE, val |-> Undefined]

\* Number(x || 0)
Contribution(x) == IF Truthy(x) THEN ToNumber(x) ELSE Num(0)

\* sum + n on numbers
Plus(a, b) ==
  IF Tag(a) = "nan" \/ Tag(b) = "nan" THEN NaN
  ELSE Num(Payload(a) + Payload(b))

\* parsed.foods.reduce((sum, f) => sum + Number(f.calories || 0), 0)
RECURSIVE Reduce(_, _, _)
Reduce(foods, i, sum) ==
  IF i > Len(foods) THEN [ok |-> TRUE, val |-> sum]
  ELSE IF ~GetCalories(foods[i]).ok THEN [ok |-> FALSE, val |-> sum]
  ELSE Reduce(foods, i + 1, Plus(sum, Contribution(GetCalories(foods[i]).val)))

\* Math.floor in the place of Math.round
MathFloor(x) ==
  IF Tag(x) = "nan" THEN NaN
  ELSE Num(10 * (Payload(x) \div 10))

\* Math.round: floor(x + 0.5), NaN stays NaN
MathRound(x) ==
  IF Tag(x) = "nan" THEN NaN
  ELSE Num(10 * ((Payload(x) + 5) \div 10))

\* the normalisation also dropping the elements that are not objects
NormalizedFoodsObjectsOnly(parsed) ==
  LET foods == GetMember(Payload(parsed), <<"f", "o", "o", "d", "s">>)
  IN IF Tag(foods) = "arr"
     THEN SelectSeq(Payload(foods), LAMBDA f : Tag(f) = "obj")
     ELSE <<>>

\* if (!Array.isArray(parsed.foods)) parsed.foods = []
NormalizedFoods(parsed) ==
  LET foods == GetMember(Payload(parsed), <<"f", "o", "o", "d", "s">>)
  IN IF Tag(foods) = "arr" THEN Payload(foods) ELSE <<>>

\* JSON.stringify writes NaN as null
Serialized(x) == IF Tag(x) = "nan" THEN Null ELSE x

\* ------------------------------------------------------------- responses
ImageRequired == [status |-> 400, body |-> [error |-> "Image is required"]]
FailedToAnalyze == [status |-> 500, body |-> [error |-> "Failed to analyze image"]]
\* the parse failure answered as a server error
InvalidModelResponseAsError ==
  [status |-> 500, body |-> [error |-> "Invalid model response"]]

InvalidModelResponse ==
  [status |-> 200,
   body |-> [foods |-> <<>>, total_calories |-> Num(0),
             warning |-> "Invalid model response"]]

\* lines 124-134; a TypeError in reduce lands in the outer catch
Aggregated(parsed) ==
  LET foods == NormalizedFoods(parsed)
      total == Reduce(foods, 1, Num(0))
  IN IF ~total.ok THEN FailedToAnalyze
     ELSE [status |-> 200,
           body |-> [foods |-> foods,
                     total_calories |-> Serialized(MathRound(total.val))]]

\* lines 110-114: the try block; ok = FALSE when either call threw
NotParsed == [ok |-> FALSE, val |-> Undefined, tries |-> 0]
TryParse(rawText) ==
  LET jsonText == extractJSON(rawText)
  IN IF jsonText.ok THEN safeJSONParse(jsonText.val) ELSE NotParsed

\* lines 114-134: the catch of the try block, or the aggregation
Answer(parsed) ==
  IF ~parsed.ok THEN InvalidModelResponse ELSE Aggregated(parsed.val)

\* ------------------------------------------------------ the model's texts
Quoted(chars) == <<Q>> \o chars \o <<Q>>
Member(key, valueText) == Quoted(key) \o <<":">> \o valueText
Braces(inner) == <<"{">> \o inner \o <<"}">>
Brackets(inner) == <<"[">> \o inner \o <<"]">>
kName == <<"n", "a", "m", "e">>
kCalories == <<"c", "a", "l", "o", "r", "i", "e", "s">>
kFoods == <<"f", "o", "o", "d", "s">>
kTotal == <<"t", "o", "t", "a", "l", "_", "c", "a", "l", "o", "r", "i", "e", "s">>
tNull == <<"n", "u", "l", "l">>
kWarning == <<"w", "a", "r", "n", "i", "n", "g">>
kMessage == <<"m", "e", "s", "s", "a", "g", "e">>
kError == <<"e", "r", "r", "o", "r">>
kDetail == <<"d", "e", "t", "a", "i", "l">>

\* elements the model may put into foods
ItemTexts ==
  { Braces(Member(kName, Quoted(<<"r", "i", "c", "e">>))),
    Braces(Member(kCalories, <<"7", "0">>)),
    Braces(Member(kCalories, <<"1", "2", "0", ".", "4">>)),
    Braces(Member(kCalories, <<"0", ".", "1">>)),
    Braces(Member(kCalories, <<"-", "1", ".", "5">>)),
    Braces(Member(kCalories, Quoted(<<"9", "5">>))),
    Braces(Member(kCalories, Quoted(<<"a", "b", "c">>))),
    Braces(Member(kCalories, tNull) \o <<",">>),
    Braces(Member(kCalories, <<"t", "r", "u", "e">>)),
    tNull,
    <<"7">> }

RECURSIVE ItemLists(_)
ItemLists(n) ==
  IF n = 0 THEN {<<>>}
  ELSE LET shorter == ItemLists(n - 1)
       IN shorter \cup
          {IF l = <<>> THEN i ELSE l \o <<",">> \o i :
             l \in {x \in shorter : x = <<>> \/ n > 1}, i \in ItemTexts}

\* values the model may give foods, arrays of up to n elements among them
FoodsTexts(n) ==
  {Brackets(l) : l \in ItemLists(n)}
  \cup {Brackets(l \o <<",", " ">>) : l \in ItemLists(1) \ {<<>>}}
  \cup {Quoted(<<"n", "o", "n", "e">>), <<"5">>, tNull, Braces(<<>>)}

ObjectTexts(n) ==
  {Braces(Member(kFoods, f)) : f \in FoodsTexts(n)}
  \cup {Braces(Member(kFoods, f) \o <<",">> \o Member(kTotal, <<"9", "9", "9">>)) :
          f \in FoodsTexts(n)}
  \cup {Braces(Member(kTotal, <<"9", "9", "9">>)),
        Braces(Member(kFoods, <<"[", "]">>) \o <<",">> \o Member(kFoods, <<"5">>))}

Fenced(t) == FenceJson \o <<"\n">> \o t \o <<"\n">> \o Fence
Prosed(t) == <<"O", "K", ":", " ">> \o t \o <<"\n">>

\* answers nothing can be extracted or parsed from
BrokenTexts ==
  { <<>>,
    <<"I", " ", "c", "a", "n", "n", "o", "t", ".">>,
    <<"}", " ", "{">>,
    Braces(kFoods),
    Braces(Member(kFoods, <<"[", "1", ",", ",", "]">>)),
    <<"{">> \o Member(kFoods, <<"[", "]">>),
    Braces(Member(kFoods, <<"[", "]">>)) \o <<" ", "}">> }

TextsUpTo(n) ==
  ObjectTexts(n)
  \cup {Fenced(t) : t \in {Braces(Member(kFoods, Brackets(l))) : l \in ItemLists(1)}}
  \cup {Prosed(t) : t \in {Braces(Member(kFoods, Brackets(l))) : l \in ItemLists(1)}}
  \cup BrokenTexts

\* what result.response.text() may give
ModelTexts == TextsUpTo(MaxFoods)
\* the same with at most one element in foods
ShortTexts == TextsUpTo(1)

\* -------------------------------------------------------------- the state
VARIABLES
  pc,        \* server: where each request's handler stands
  reqFile,   \* server: req.file is set (multer stored an upload)
  disk,      \* server: the uploaded files present in uploads/
  effects,   \* server: what each handler did so far, in order
  res,       \* server: the response being sent, NoResponse when none is
  rawText,   \* server: result.response.text() of the request answered in res
  parsed,    \* server: what safeJSONParse returned for rawText
  text,      \* extractJSON: the argument
  cleaned,   \* extractJSON: the local
  extracted, \* extractJSON: the outcome
  candidate, \* safeJSONParse: the argument
  outcome,   \* safeJSONParse: the outcome
  image, preview, result, loading, error, \* client: the component's state
  fetching,  \* client: the image of the upload in flight
  shownFor,  \* client: the image whose upload produced result
  uploads    \* client: uploads started

serverVars == <<pc, reqFile, disk, effects, res, rawText, parsed>>
extractVars == <<text, cleaned, extracted>>
parseVars == <<candidate, outcome>>
clientVars == <<image, preview, result, loading, error, fetching, shownFor, uploads>>
vars == <<serverVars, extractVars, parseVars, clientVars>>

Requests == 1..MaxRequests
NoResponse == [req |-> 0, status |-> 0, body |-> [none |-> TRUE]]
NoText == <<"no text">>
NotRun == [ok |-> FALSE, val |-> <<"not run">>]
NoFile == "no file"

ServerInit ==
  /\ pc = [r \in Requests |-> "new"]
  /\ reqFile = [r \in Requests |-> FALSE]
  /\ disk = {}
  /\ effects = [r \in Requests |-> <<>>]
  /\ res = NoResponse
  /\ rawText = NoText
  /\ parsed = NotParsed

ExtractIdle == text = <<>> /\ cleaned = <<>> /\ extracted = NotRun
ParseIdle == candidate = <<>> /\ outcome = NotParsed
ClientInit ==
  /\ image = NoFile
  /\ preview = NoFile
  /\ result = Null
  /\ loading = FALSE
  /\ error = ""
  /\ fetching = NoFile
  /\ shownFor = NoFile
  /\ uploads = 0

\* each of the four parts below leaves the state of the other three alone
ServerOnly == UNCHANGED <<extractVars, parseVars, clientVars>>
ExtractOnly == UNCHANGED <<serverVars, parseVars, clientVars>>
ParseOnly == UNCHANGED <<serverVars, extractVars, clientVars>>
ClientOnly == UNCHANGED <<serverVars, extractVars, parseVars>>

\* ----------------------------------------------- POST /analyze-food
\* lines 81-104: multer stores the upload, the handler runs to the await.
\* Handlers run one at a time between awaits; res = NoResponse says that
\* the previous answer has left before the next handler step runs.
Receive(r, withFile) ==
  /\ pc[r] = "new"
  /\ res = NoResponse
  /\ reqFile' = [reqFile EXCEPT ![r] = withFile]
  /\ IF withFile
     THEN /\ disk' = disk \cup {r}
          /\ effects' = [effects EXCEPT ![r] = <<"readFileSync", "generateContent">>]
          /\ pc' = [pc EXCEPT ![r] = "awaiting"]
          /\ res' = res
     ELSE /\ disk' = disk
          /\ effects' = effects
          /\ pc' = [pc EXCEPT ![r] = "done"]
          /\ res' = [req |-> r] @@ ImageRequired
  /\ UNCHANGED <<rawText, parsed>>
  /\ ServerOnly

\* lines 106-134: the model call resolved and text() gave t
ModelReturns(r, t) ==
  /\ pc[r] = "awaiting"
  /\ res = NoResponse
  /\ disk' = disk \ {r}
  /\ rawText' = t
  /\ parsed' = TryParse(t)
  /\ effects' = [effects EXCEPT ![r] =
                   IF parsed'.ok THEN @ \o <<"unlinkSync", "reduce">>
                   ELSE Append(@, "unlinkSync")]
  /\ res' = [req |-> r] @@ Answer(parsed')
  /\ pc' = [pc EXCEPT ![r] = "done"]
  /\ UNCHANGED reqFile
  /\ ServerOnly

\* lines 106-108, 135-138: the model call resolved but text() throws
\* (a blocked answer); the file is gone by then
TextThrows(r) ==
  /\ pc[r] = "awaiting"
  /\ res = NoResponse
  /\ disk' = disk \ {r}
  /\ effects' = [effects EXCEPT ![r] = Append(@, "unlinkSync")]
  /\ res' = [req |-> r] @@ FailedToAnalyze
  /\ pc' = [pc EXCEPT ![r] = "done"]
  /\ UNCHANGED <<reqFile, rawText, parsed>>
  /\ ServerOnly

\* the catch calling the model a second time before giving up
ModelThrowsRetry(r) ==
  /\ pc[r] = "awaiting"
  /\ res = NoResponse
  /\ IF Len(effects[r]) < 3
     THEN /\ effects' = [effects EXCEPT ![r] = @ \o <<"rejected", "generateContent">>]
          /\ UNCHANGED <<res, pc>>
     ELSE /\ effects' = [effects EXCEPT ![r] = Append(@, "rejected")]
          /\ res' = [req |-> r] @@ FailedToAnalyze
          /\ pc' = [pc EXCEPT ![r] = "done"]
  /\ UNCHANGED <<reqFile, disk, rawText, parsed>>
  /\ ServerOnly

\* lines 89, 135-138: the model call rejected
ModelThrows(r) ==
  /\ pc[r] = "awaiting"
  /\ res = NoResponse
  /\ effects' = [effects EXCEPT ![r] = Append(@, "rejected")]
  /\ res' = [req |-> r] @@ FailedToAnalyze
  /\ pc' = [pc EXCEPT ![r] = "done"]
  /\ UNCHANGED <<reqFile, disk, rawText, parsed>>
  /\ ServerOnly

\* the response leaves the process; the handler's locals are dropped
Deliver ==
  /\ res # NoResponse
  /\ res' = NoResponse
  /\ rawText' = NoText
  /\ parsed' = NotParsed
  /\ UNCHANGED <<pc, reqFile, disk, effects>>
  /\ ServerOnly

\* the requests side by side, each answered from a short text
Next ==
  \/ \E r \in Requests, withFile \in BOOLEAN : Receive(r, withFile)
  \/ \E r \in Requests, t \in ShortTexts : ModelReturns(r, t)
  \/ \E r \in Requests : TextThrows(r)
  \/ \E r \in Requests : ModelThrows(r)
  \/ Deliver

Init == ServerInit /\ ExtractIdle /\ ParseIdle /\ ClientInit
Spec == Init /\ [][Next]_vars

\* one request on its own, answered from any of the texts
AnswerNext ==
  \/ \E withFile \in BOOLEAN : Receive(1, withFile)
  \/ \E t \in ModelTexts : ModelReturns(1, t)
  \/ TextThrows(1)
  \/ ModelThrows(1)
  \/ Deliver

SpecAnswers == Init /\ [][AnswerNext]_vars

\* ------------------------------------------------- extractJSON on its own
Fragments ==
  {FenceJson, Fence, <<BT>>, <<"j", "s", "o", "n">>,
   <<"{">>, <<"}">>, <<" ">>, <<"a">>}

RECURSIVE Concatenations(_, _)
Concatenations(parts, n) ==
  IF n = 0 THEN {<<>>}
  ELSE LET shorter == Concatenations(parts, n - 1)
       IN shorter \cup {t \o f : t \in shorter, f \in parts}

ExtractTexts == Concatenations(Fragments, MaxFrags)

CallExtractJSON ==
  /\ extracted = NotRun
  /\ cleaned' = Cleaned(text)
  /\ extracted' = extractJSON(text)
  /\ UNCHANGED text
  /\ ExtractOnly

ExtractInit ==
  /\ text \in ExtractTexts
  /\ cleaned = <<>>
  /\ extracted = NotRun
  /\ ServerInit /\ ParseIdle /\ ClientInit

ExtractNext == CallExtractJSON
SpecExtract == ExtractInit /\ [][ExtractNext]_vars

\* ----------------------------------------------- safeJSONParse on its own
Tokens ==
  {<<"{">> \o Quoted(<<"a">>) \o <<":">>, <<"[">>, <<"]">>, <<"}">>,
   <<",">>, <<" ">>, <<"1">>, Quoted(<<"x", ",", " ", "}">>)}

\* the text of the trailing-comma example
AppleText ==
  Braces(Member(kFoods,
           <<" ">> \o Brackets(
             Braces(Member(kName, Quoted(<<"a", "p", "p", "l", "e">>)) \o <<",">>
                    \o Member(kCalories, <<"9", "5">>) \o <<",">>) \o <<",">>))
         \o <<",">> \o Member(kTotal, <<"9", "5">>) \o <<",">>)

Candidates == Concatenations(Tokens, MaxTokens) \cup {AppleText}

CallSafeJSONParse ==
  /\ outcome = NotParsed
  /\ outcome' = safeJSONParse(candidate)
  /\ UNCHANGED candidate
  /\ ParseOnly

ParseInit ==
  /\ candidate \in Candidates
  /\ outcome = NotParsed
  /\ ServerInit /\ ExtractIdle /\ ClientInit

ParseNext == CallSafeJSONParse
SpecParse == ParseInit /\ [][ParseNext]_vars

\* ------------------------------------------------------------ FoodAnalyzer
Files == {"a.jpg", "b.jpg"}

\* lines 160-164
isAnalyzeResponse(payload) ==
  /\ Tag(payload) = "obj"
  /\ Tag(GetMember(Payload(payload), kTotal)) = "num"
  /\ Tag(GetMember(Payload(payload), kFoods)) = "arr"

\* lines 166-173; Null stands for the returned null
getApiErrorMessage(payload) ==
  IF Tag(payload) # "obj" THEN Null
  ELSE IF Tag(GetMember(Payload(payload), kMessage)) = "str"
    THEN GetMember(Payload(payload), kMessage)
  ELSE IF Tag(GetMember(Payload(payload), kError)) = "str"
    THEN GetMember(Payload(payload), kError)
  ELSE IF Tag(GetMember(Payload(payload), kDetail)) = "str"
    THEN GetMember(Payload(payload), kDetail)
  ELSE Null

\* what fetch may settle with: rejected, or a status with the value
\* res.json() gives (Null when the body is not JSON)
Settlements ==
  { [rejected |-> TRUE, status |-> 0, payload |-> Null],
    [rejected |-> FALSE, status |-> 200,
     payload |-> Obj(<<<<kFoods, Arr(<<>>)>>, <<kTotal, Num(700)>>>>)],
    [rejected |-> FALSE, status |-> 200,
     payload |-> Obj(<<<<kFoods, Arr(<<>>)>>, <<kTotal, Num(0)>>,
                       <<kWarning, Str("Invalid model response")>>>>)],
    [rejected |-> FALSE, status |-> 200,
     payload |-> Obj(<<<<kFoods, Arr(<<>>)>>, <<kTotal, Null>>>>)],
    [rejected |-> FALSE, status |-> 200, payload |-> Null],
    [rejected |-> FALSE, status |-> 400,
     payload |-> Obj(<<<<kError, Str("Image is required")>>>>)],
    [rejected |-> FALSE, status |-> 500,
     payload |-> Obj(<<<<kError, Str("Failed to analyze image")>>>>)],
    [rejected |-> FALSE, status |-> 402, payload |-> Null],
    [rejected |-> FALSE, status |-> 402,
     payload |-> Obj(<<<<kMessage, Str("Quota exhausted")>>>>)],
    [rejected |-> FALSE, status |-> 502, payload |-> Null] }

\* `Request failed with status ${res.status}.`
StatusMessage(status) ==
  IF status = 400 THEN "Request failed with status 400."
  ELSE IF status = 500 THEN "Request failed with status 500."
  ELSE "Request failed with status 502."

\* lines 215-236: the message of the error thrown for this settlement, ""
\* when none is thrown
ThrownMessage(o) ==
  IF o.rejected THEN "Failed to fetch"
  ELSE IF o.status \notin 200..299 THEN
    IF getApiErrorMessage(o.payload) # Null
      THEN Payload(getApiErrorMessage(o.payload))
    ELSE IF o.status = 402
      THEN "Payment required (402): backend billing or credits issue."
    ELSE StatusMessage(o.status)
  ELSE IF ~isAnalyzeResponse(o.payload)
    THEN "API returned unexpected response format."
  ELSE ""

\* lines 182-191; file = NoFile is a change event without a file
handleImageChange(file) ==
  /\ IF file = NoFile THEN UNCHANGED clientVars
     ELSE /\ image' = file
          /\ preview' = file
          /\ result' = Null
          /\ shownFor' = NoFile
          /\ error' = ""
          /\ UNCHANGED <<loading, fetching, uploads>>
  /\ ClientOnly

\* lines 193-206, 307-313: a click on the enabled button, up to the await
handleUpload ==
  /\ ~(loading \/ image = NoFile)
  /\ uploads < MaxUploads
  /\ loading' = TRUE
  /\ error' = ""
  /\ fetching' = image
  /\ uploads' = uploads + 1
  /\ UNCHANGED <<image, preview, result, shownFor>>
  /\ ClientOnly

\* lines 208-239: the rest of handleUpload once fetch has settled with o
FetchSettles(o) ==
  /\ fetching # NoFile
  /\ IF ThrownMessage(o) = ""
     THEN /\ result' = o.payload
          /\ shownFor' = fetching
          /\ error' = error
     ELSE /\ error' = ThrownMessage(o)
          /\ UNCHANGED <<result, shownFor>>
  /\ loading' = FALSE
  /\ fetching' = NoFile
  /\ UNCHANGED <<image, preview, uploads>>
  /\ ClientOnly

ClientNext ==
  \/ \E file \in Files \cup {NoFile} : handleImageChange(file)
  \/ handleUpload
  \/ \E o \in Settlements : FetchSettles(o)

ClientSpecInit == ClientInit /\ ServerInit /\ ExtractIdle /\ ParseIdle
SpecClient == ClientSpecInit /\ [][ClientNext]_vars

\* ================================================================= claims
Count(seq, x) == Cardinality({k \in 1..Len(seq) : seq[k] = x})
Abs(n) == IF n < 0 THEN -n ELSE n
HasFence(s) == \E i \in 1..Len(s) : MatchesAt(s, i, Fence)
Answered == res # NoResponse
AnsweredOk == res.status = 200
Degraded == AnsweredOk /\ "warning" \in DOMAIN res.body
Success == AnsweredOk /\ "warning" \notin DOMAIN res.body

\* C1: a request that reached the model call and has ended has no uploaded
\* file left on disk, whether the model call returned or threw.
C1_TempFileDeleted ==
  \A r \in Requests :
    pc[r] = "done" /\ Count(effects[r], "generateContent") > 0 => r \notin disk

\* C2: once the model call has returned text the answer is 200 with foods
\* and total_calories, whatever the text parses to; 400 is sent only for a
\* missing file and 500 only when no text was obtained from the model.
C2_TextAlwaysAnswered200 ==
  Answered =>
    /\ rawText # NoText =>
         /\ res.status = 200
         /\ {"foods", "total_calories"} \subseteq DOMAIN res.body
    /\ res.status # 200 =>
         \/ res.status = 400 /\ ~reqFile[res.req]
         \/ res.status = 500 /\ rawText = NoText

\* C3: when extractJSON or safeJSONParse fails on the model's text the
\* answer is 200 with exactly foods = [], total_calories = 0 and a non-empty
\* warning, and the aggregation is not run.
C3_DegradedOnParseFailure ==
  Answered /\ rawText # NoText
  /\ (~extractJSON(rawText).ok \/ ~safeJSONParse(extractJSON(rawText).val).ok)
  => /\ res.status = 200
     /\ DOMAIN res.body = {"foods", "total_calories", "warning"}
     /\ res.body.foods = <<>>
     /\ res.body.total_calories = Num(0)
     /\ res.body.warning # ""
     /\ Count(effects[res.req], "reduce") = 0

\* the parse failed on an extracted span and the degraded payload went out
C3_Witness ==
  /\ rawText # NoText
  /\ extractJSON(rawText).ok
  /\ ~safeJSONParse(extractJSON(rawText).val).ok
  /\ Degraded

\* what an element contributes according to the claim: the value of a
\* number or a numeric string in calories, 0 for anything else
ClaimedContribution(f) ==
  LET c == IF Tag(f) = "obj" THEN GetMember(Payload(f), kCalories) ELSE Undefined
  IN IF Tag(c) = "num" THEN Payload(c)
     ELSE IF Tag(c) = "str" /\ IsDecimal(trim(Payload(c)))
       THEN DecimalValue(trim(Payload(c)))
     ELSE 0

RECURSIVE ClaimedSum(_, _)
ClaimedSum(foods, i) ==
  IF i > Len(foods) THEN 0
  ELSE ClaimedContribution(foods[i]) + ClaimedSum(foods, i + 1)

\* C4: in every 200 answer total_calories is an integer, the rounded sum of
\* the contributions of the returned foods, where a missing, null or
\* non-numeric calories counts 0 and a number or numeric string its value.
C4_TotalIsRoundedSum ==
  AnsweredOk =>
    /\ "total_calories" \in DOMAIN res.body
    /\ Tag(res.body.total_calories) = "num"
    /\ Payload(res.body.total_calories) % 10 = 0
    /\ res.body.total_calories = MathRound(Num(ClaimedSum(res.body.foods, 1)))

\* C5: a request calls the model at most once; without a file it is
\* answered 400 "Image is required" with no model call and no file read or
\* deleted; a failed model call is answered 500 "Failed to analyze image"
\* and nothing is called after the failure.
C5_ModelCalledAtMostOnce ==
  \A r \in Requests :
    /\ Count(effects[r], "generateContent") <= 1
    /\ pc[r] # "new" /\ ~reqFile[r] =>
         /\ effects[r] = <<>>
         /\ pc[r] = "done"
         /\ res.req = r =>
              res = [req |-> r, status |-> 400,
                     body |-> [error |-> "Image is required"]]
    /\ Count(effects[r], "rejected") > 0 =>
         /\ effects[r] = <<"readFileSync", "generateContent", "rejected">>
         /\ pc[r] = "done"
         /\ res.req = r =>
              res = [req |-> r, status |-> 500,
                     body |-> [error |-> "Failed to analyze image"]]

\* one request was refused for its missing file, another's model call
\* failed and is being answered
C5_Witness ==
  \E r1, r2 \in Requests :
    /\ pc[r1] = "done" /\ ~reqFile[r1]
    /\ Count(effects[r2], "rejected") = 1
    /\ res.req = r2 /\ res.status = 500

\* C6: extractJSON strips every fence and the outer white space and returns
\* the span from the first "{" to the last "}" of the cleaned text; it fails
\* exactly when no "{" is followed by a "}"; an unfenced object text comes
\* back unchanged, and so does the function's own output.
C6_ExtractSpan ==
  extracted # NotRun =>
    LET opens == {i \in 1..Len(cleaned) : cleaned[i] = "{"}
        closes == {j \in 1..Len(cleaned) : cleaned[j] = "}"}
        hasSpan == \E i \in opens, j \in closes : i < j
    IN /\ ~HasFence(cleaned)
       /\ cleaned # <<>> =>
            cleaned[1] \notin RegexSpace /\ cleaned[Len(cleaned)] \notin RegexSpace
       /\ ~HasFence(text) /\ text # <<>>
          /\ text[1] \notin RegexSpace /\ text[Len(text)] \notin RegexSpace
          => cleaned = text
       /\ extracted.ok = hasSpan
       /\ hasSpan => extracted.val = SubSeq(cleaned, Min(opens), Max(closes))
       /\ ~HasFence(text) /\ text # <<>> /\ text[1] = "{" /\ text[Len(text)] = "}"
          => extracted.ok /\ extracted.val = text
       /\ extracted.ok => extractJSON(extracted.val) = extracted

\* a fenced text whose span runs over an inner "}" to the last one
C6_Witness ==
  /\ extracted # NotRun
  /\ extracted.ok
  /\ MatchesAt(text, 1, FenceJson)
  /\ Count(extracted.val, "}") >= 2
  /\ extracted.val = SubSeq(text, Len(FenceJson) + 1, Len(text))

\* the candidate without the commas that directly precede a closing bracket
CommasRemoved(s) ==
  LET trailing(i) ==
        /\ s[i] = ","
        /\ \E j \in (i + 1)..Len(s) :
             /\ s[j] \in {"}", "]"}
             /\ \A m \in (i + 1)..(j - 1) : s[m] \in RegexSpace
      kept == {i \in 1..Len(s) : ~trailing(i)}
      nth(n) == CHOOSE i \in kept : Cardinality({k \in kept : k <= i}) = n
  IN [n \in 1..Cardinality(kept) |-> s[nth(n)]]

\* C7: safeJSONParse returns the strict parse when it succeeds; otherwise
\* it parses once more, and what it returns (or its failure) is the strict
\* parse of the candidate with its trailing commas removed.
C7_RepairEqualsCommasRemoved ==
  outcome # NotParsed =>
    IF JSONParse(candidate).ok
    THEN outcome = [ok |-> TRUE, val |-> JSONParse(candidate).val, tries |-> 1]
    ELSE /\ outcome.tries = 2
         /\ outcome.ok = JSONParse(CommasRemoved(candidate)).ok
         /\ outcome.ok => outcome.val = JSONParse(CommasRemoved(candidate)).val

\* C8: a successful answer carries parsed.foods itself when that is a
\* sequence (same elements, same order), and foods = [] with total 0 when
\* it is anything else, which raises no error.
C8_FoodsUnmodified ==
  Answered /\ parsed.ok =>
    LET foods == GetMember(Payload(parsed.val), kFoods)
    IN /\ Success /\ Tag(foods) = "arr" => res.body.foods = Payload(foods)
       /\ Tag(foods) # "arr" =>
            /\ Success
            /\ res.body.foods = <<>>
            /\ res.body.total_calories = Num(0)

\* two different elements went out in the order the model gave them
C8_Witness ==
  /\ Success
  /\ parsed.ok
  /\ Len(res.body.foods) >= 2
  /\ res.body.foods[1] # res.body.foods[2]
  /\ res.body.foods = Payload(GetMember(Payload(parsed.val), kFoods))

\* the sum the handler rounds, for a successful answer
SumOfAnswer == Reduce(res.body.foods, 1, Num(0)).val

\* C9 as stated: the total is the nearest integer to the sum, a tie going
\* to the integer farther from zero, also below zero.
C9_TiesAwayFromZero ==
  Success /\ Tag(SumOfAnswer) = "num" =>
    LET total == Payload(res.body.total_calories)
        d == total - Payload(SumOfAnswer)
    IN /\ Tag(res.body.total_calories) = "num"
       /\ total % 10 = 0
       /\ \/ Abs(d) < 5
          \/ Abs(d) = 5 /\ Abs(total) > Abs(Payload(SumOfAnswer))

\* C9 amended: the total is the nearest integer to the sum, a tie going to
\* the greater integer; a sum that is not a number is sent as null.
C9_TiesTowardPlusInfinity ==
  Success =>
    IF Tag(SumOfAnswer) = "num"
    THEN LET total == Payload(res.body.total_calories)
             d == total - Payload(SumOfAnswer)
         IN /\ Tag(res.body.total_calories) = "num"
            /\ total % 10 = 0
            /\ -5 < d /\ d <= 5
    ELSE res.body.total_calories = Null

\* a sum of -1.5, halfway between -2 and -1, went out as -1
C9_Witness ==
  /\ Success
  /\ SumOfAnswer = Num(-15)
  /\ res.body.total_calories = Num(-10)

\* C10: a displayed result was produced from the selected image, and
\* loading is false whenever no upload is in flight.
C10_ResultOfSelectedImage ==
  /\ result # Null => shownFor = image
  /\ fetching = NoFile => ~loading

====
